---------------------------- MODULE Spec2Model ----------------------------
(***************************************************************************)
(* Tagged-hash Merkle tree of msakuta/merkle-tree.                         *)
(*                                                                         *)
(*   merkle-root-lib/src/lib.rs       tagged_hash, MerkleTree::build,      *)
(*                                    root, search_with_path               *)
(*   proof-of-reserve-app/src/main.rs proof_by_user_id, rocket             *)
(*                                                                         *)
(* Strings are sequences of one-character strings, byte strings are        *)
(* sequences of 0..255, Option<T> is a sequence of length 0 (None) or 1     *)
(* (Some), a reference to a node of the arena is the node's index.  Arena   *)
(* indices are 0-based as in the source; NodeAt converts.                   *)
(*                                                                         *)
(* SHA-256 (crate sha2) is computed in full: 32-bit words are pairs of     *)
(* 16-bit halves, exclusive or is read from a table of byte pairs, and a    *)
(* digest is its 32 bytes, so hashes and paths carry the values the         *)
(* repository's tests expect.                                               *)
(***************************************************************************)
EXTENDS Integers, Sequences, FiniteSets

VARIABLES
    tag_leaf,     \* build's tag_leaf argument
    tag_branch,   \* build's tag_branch argument
    user_data,    \* build's user_data argument: a sequence of <<id, balance>>
    pc,           \* "new" before MerkleTree::build has run, "built" after
    tree,         \* the MerkleTree: [root, nodes]
    root_ret,     \* last return value of root(), run alone
    search_ret,   \* last return value of search_with_path, run alone
    calls         \* calls in progress on the shared tree, one slot per caller

vars == <<tag_leaf, tag_branch, user_data, pc, tree, root_ret, search_ret, calls>>

----------------------------------------------------------------------------
(* Bounds *)

MaxRecords == 6

MaxConcRecords == 5

MaxIdLen == 2

----------------------------------------------------------------------------
(* Option, strings, bytes *)

None == <<>>

Some(x) == <<x>>

is_some(o) == Len(o) = 1

unwrap(o) == o[1]

Min(a, b) == IF a <= b THEN a ELSE b

Digits == <<"0", "1", "2", "3", "4", "5", "6", "7", "8", "9">>

UpperCase == <<"A", "B", "C", "D", "E", "F", "G", "H", "I", "J", "K", "L", "M",
               "N", "O", "P", "Q", "R", "S", "T", "U", "V", "W", "X", "Y", "Z">>

LowerCase == <<"a", "b", "c", "d", "e", "f", "g", "h", "i", "j", "k", "l", "m",
               "n", "o", "p", "q", "r", "s", "t", "u", "v", "w", "x", "y", "z">>

HexDigits == <<"0", "1", "2", "3", "4", "5", "6", "7", "8", "9",
               "a", "b", "c", "d", "e", "f">>

IndexOf(seq, x) == CHOOSE i \in 1..Len(seq) : seq[i] = x

IsIn(seq, x) == \E i \in 1..Len(seq) : seq[i] = x

Punctuation == <<"(", ")", "+", ",", "-", "_">>

PunctuationCodes == <<40, 41, 43, 44, 45, 95>>

\* The ASCII code of each character the model writes.
AsciiCode ==
    [c \in {Digits[i] : i \in 1..Len(Digits)} \cup {UpperCase[i] : i \in 1..Len(UpperCase)}
         \cup {LowerCase[i] : i \in 1..Len(LowerCase)}
         \cup {Punctuation[i] : i \in 1..Len(Punctuation)} |->
        CASE IsIn(Digits, c)    -> 47 + IndexOf(Digits, c)
          [] IsIn(UpperCase, c) -> 64 + IndexOf(UpperCase, c)
          [] IsIn(LowerCase, c) -> 96 + IndexOf(LowerCase, c)
          [] OTHER              -> PunctuationCodes[IndexOf(Punctuation, c)]]

\* str::as_bytes, on ASCII text.
as_bytes(s) == [i \in 1..Len(s) |-> AsciiCode[s[i]]]

\* Display for u32: decimal, no sign, no leading zeros.
RECURSIVE to_string(_)
to_string(n) ==
    IF n < 10 THEN <<Digits[n + 1]>>
    ELSE to_string(n \div 10) \o <<Digits[(n % 10) + 1]>>

\* hex::encode: two lowercase hexadecimal digits per byte, high nibble first.
RECURSIVE hex_encode(_)
hex_encode(bytes) ==
    IF bytes = <<>> THEN <<>>
    ELSE <<HexDigits[(Head(bytes) \div 16) + 1], HexDigits[(Head(bytes) % 16) + 1]>>
         \o hex_encode(Tail(bytes))

----------------------------------------------------------------------------
(* tagged_hash *)

\* Sha256::new(): nothing absorbed yet.
Sha256_new == <<>>

\* Digest::update: absorbs the bytes after those already absorbed.
update(hasher, data) == hasher \o data

\* SHA-256 (FIPS 180-4) as crate sha2 computes it.

\* Exclusive or of two n-bit numbers, bit by bit.
RECURSIVE XorBits(_, _, _)
XorBits(a, b, n) ==
    IF n = 0 THEN 0
    ELSE ((a + b) % 2) + 2 * XorBits(a \div 2, b \div 2, n - 1)

\* Exclusive or of two 4-bit numbers a, b at position 16 a + b + 1. The
\* concatenation makes the table a tuple, computed once.
Xor4 == [i \in 1..256 |-> XorBits((i - 1) \div 16, (i - 1) % 16, 4)] \o <<>>

\* Exclusive or of two bytes a, b at position 256 a + b + 1.
Xor8 ==
    [i \in 1..65536 |->
        16 * Xor4[16 * ((i - 1) \div 4096) + (((i - 1) \div 16) % 16) + 1]
        + Xor4[16 * (((i - 1) \div 256) % 16) + ((i - 1) % 16) + 1]] \o <<>>

\* A 32-bit word is two 16-bit halves, high and low; these are the
\* operations of SHA-256 on one half.
Xor16(a, b) ==
    256 * Xor8[256 * (a \div 256) + (b \div 256) + 1]
    + Xor8[256 * (a % 256) + (b % 256) + 1]

And16(a, b) == (a + b - Xor16(a, b)) \div 2

\* The half taking the bits above p of x and, over them, the bits below
\* p of y: one half of a rotation (or shift) right by log2(p), q = 65536 / p.
Shift16(x, y, p, q) == (x \div p) + (y % p) * q

\* ROTR 2 xor ROTR 13 xor ROTR 22, the half led by x.
BigSigma0(x, y) ==
    Xor16(Xor16(Shift16(x, y, 4, 16384), Shift16(x, y, 8192, 8)), Shift16(y, x, 64, 1024))

\* ROTR 6 xor ROTR 11 xor ROTR 25
BigSigma1(x, y) ==
    Xor16(Xor16(Shift16(x, y, 64, 1024), Shift16(x, y, 2048, 32)), Shift16(y, x, 512, 128))

\* ROTR 7 xor ROTR 18 xor SHR 3: high and low half of the word (h, l).
SmallSigma0Hi(h, l) ==
    Xor16(Xor16(Shift16(h, l, 128, 512), Shift16(l, h, 4, 16384)), h \div 8)

SmallSigma0Lo(h, l) ==
    Xor16(Xor16(Shift16(l, h, 128, 512), Shift16(h, l, 4, 16384)), Shift16(l, h, 8, 8192))

\* ROTR 17 xor ROTR 19 xor SHR 10
SmallSigma1Hi(h, l) ==
    Xor16(Xor16(Shift16(l, h, 2, 32768), Shift16(l, h, 8, 8192)), h \div 1024)

SmallSigma1Lo(h, l) ==
    Xor16(Xor16(Shift16(h, l, 2, 32768), Shift16(h, l, 8, 8192)), Shift16(l, h, 1024, 64))

Ch16(e, f, g) == And16(e, f) + And16(65535 - e, g)

Maj16(a, b, c) == And16(a, b) + And16(c, Xor16(a, b))

\* The round constants and the initial hash value, as halves.
SHA256_K ==
    <<
      17034, 12184, 28983, 17553, 46528, 64463, 59829, 56229,
      14678, 49755, 23025, 4593, 37439, 33444, 43804, 24277,
      55303, 43672, 4739, 23297, 9265, 34238, 21772, 32195,
      29374, 23924, 32990, 45566, 39900, 1703, 49563, 61812,
      58523, 27073, 61374, 18310, 4033, 40390, 9228, 41420,
      11753, 11375, 19060, 33962, 23728, 43484, 30457, 35034,
      38974, 20818, 43057, 50797, 45059, 10184, 48985, 32711,
      50912, 3059, 54695, 37191, 1738, 25425, 5161, 10599,
      10167, 2693, 11803, 8504, 19756, 28156, 21304, 3347,
      25866, 29524, 30314, 2747, 33218, 51502, 37490, 11397,
      41663, 59553, 43034, 26187, 49739, 35696, 51052, 20899,
      53650, 59417, 54937, 1572, 62478, 13701, 4202, 41072,
      6564, 49430, 7735, 27656, 10056, 30540, 13488, 48309,
      14620, 3251, 20184, 43594, 23452, 51791, 26670, 28659,
      29839, 33518, 30885, 25455, 33992, 30740, 36039, 520,
      37054, 65530, 42064, 27883, 48889, 41975, 50801, 30962 >>

SHA256_H0 ==
    <<
      27145, 58983, 47975, 44677, 15470, 62322, 42319, 62778,
      20750, 21119, 39685, 26764, 8067, 55723, 23520, 52505 >>

\* The message schedule: w holds words 0..t-1 as halves (word t at
\* w[2t+1], w[2t+2]); words are appended until there are 64.
RECURSIVE Schedule(_)
Schedule(w) ==
    IF Len(w) = 128 THEN w
    ELSE LET t  == Len(w) \div 2
             lo == SmallSigma1Lo(w[2 * t - 3], w[2 * t - 2]) + w[2 * t - 12]
                   + SmallSigma0Lo(w[2 * t - 29], w[2 * t - 28]) + w[2 * t - 30]
             hi == SmallSigma1Hi(w[2 * t - 3], w[2 * t - 2]) + w[2 * t - 13]
                   + SmallSigma0Hi(w[2 * t - 29], w[2 * t - 28]) + w[2 * t - 31]
                   + (lo \div 65536)
         IN  Schedule(w \o <<hi % 65536, lo % 65536>>)

\* Round t on the working variables a..h (16 halves, a first).
Round(s, w, t) ==
    LET t1lo == s[16] + BigSigma1(s[10], s[9]) + Ch16(s[10], s[12], s[14])
                + SHA256_K[2 * t + 2] + w[2 * t + 2]
        t1hi == s[15] + BigSigma1(s[9], s[10]) + Ch16(s[9], s[11], s[13])
                + SHA256_K[2 * t + 1] + w[2 * t + 1] + (t1lo \div 65536)
        t2lo == BigSigma0(s[2], s[1]) + Maj16(s[2], s[4], s[6])
        t2hi == BigSigma0(s[1], s[2]) + Maj16(s[1], s[3], s[5]) + (t2lo \div 65536)
        alo  == (t1lo % 65536) + (t2lo % 65536)
        ahi  == t1hi + t2hi + (alo \div 65536)
        elo  == s[8] + (t1lo % 65536)
        ehi  == s[7] + t1hi + (elo \div 65536)
    IN  <<ahi % 65536, alo % 65536, s[1], s[2], s[3], s[4], s[5], s[6],
          ehi % 65536, elo % 65536, s[9], s[10], s[11], s[12], s[13], s[14]>>

\* Rounds t..63. Len(s) has the working variables of round t - 1
\* evaluated before round t starts.
RECURSIVE Rounds(_, _, _)
Rounds(s, w, t) ==
    IF Len(s) = 16 /\ t < 64 THEN Rounds(Round(s, w, t), w, t + 1) ELSE s

\* One 64-byte block (the bytes from offset + 1) absorbed into the hash value.
Compress(hs, bytes, offset) ==
    LET w0 == [i \in 1..32 |-> 256 * bytes[offset + 2 * i - 1] + bytes[offset + 2 * i]]
        s  == Rounds(hs, Schedule(w0 \o <<>>), 0)
    IN  [i \in 1..16 |->
            IF i % 2 = 0 THEN (hs[i] + s[i]) % 65536
            ELSE (hs[i] + s[i] + ((hs[i + 1] + s[i + 1]) \div 65536)) % 65536] \o <<>>

RECURSIVE CompressAll(_, _, _)
CompressAll(hs, bytes, offset) ==
    IF offset >= Len(bytes) THEN hs
    ELSE CompressAll(Compress(hs, bytes, offset), bytes, offset + 64)

\* The message, 0x80, zeros up to 56 modulo 64, the bit length in 8 bytes.
Pad(msg) ==
    LET bits == 8 * Len(msg)
    IN  msg \o <<128>> \o [i \in 1..((119 - (Len(msg) % 64)) % 64) |-> 0]
        \o <<0, 0, 0, 0, (bits \div 16777216) % 256, (bits \div 65536) % 256,
             (bits \div 256) % 256, bits % 256>>

\* Digest::finalize: the SHA-256 digest of everything absorbed, 32 bytes.
finalize(hasher) ==
    LET hs == CompressAll(SHA256_H0, Pad(hasher), 0)
    IN  [i \in 1..32 |-> IF i % 2 = 1 THEN hs[(i + 1) \div 2] \div 256
                                     ELSE hs[i \div 2] % 256] \o <<>>

\* lib.rs tagged_hash: tag, tag, input through one hasher.
tagged_hash(tag, input) ==
    finalize(update(update(update(Sha256_new, as_bytes(tag)), as_bytes(tag)), input))

----------------------------------------------------------------------------
(* MerkleNode, MerkleTree::new_branch, MerkleTree::build *)

UserData_new(user_id, user_balance) ==
    [user_id |-> user_id, user_balance |-> user_balance]

new_leaf(hash, ud) ==
    [hash |-> hash, left |-> None, right |-> None, user_data |-> ud]

\* self.nodes[i]
NodeAt(t, i) == t.nodes[i + 1]

\* format!("({},{})", user_id, user_balance)
format_record(user_id, user_balance) ==
    <<"(">> \o to_string(user_id) \o <<",">> \o to_string(user_balance) \o <<")">>

\* new_branch hashing the right child's hash before the left's.
NewBranchSwapped(t, left, right, tag) ==
    [t EXCEPT !.nodes = Append(@,
        [hash      |-> tagged_hash(tag, NodeAt(t, right).hash \o NodeAt(t, left).hash),
         left      |-> Some(left),
         right     |-> Some(right),
         user_data |-> None])]

\* The tree after new_branch; the index it returns is the old nodes.len().
new_branch(t, left, right, tag) ==
    [t EXCEPT !.nodes = Append(@,
        [hash      |-> tagged_hash(tag, NodeAt(t, left).hash \o NodeAt(t, right).hash),
         left      |-> Some(left),
         right     |-> Some(right),
         user_data |-> None])]

\* The for loop carrying an unpaired last node to the next level as it is.
RECURSIVE BuildLevelPromote(_, _, _, _)
BuildLevelPromote(t, i, next_start, tag) ==
    IF i >= next_start THEN t
    ELSE IF i + 1 > next_start - 1
         THEN [t EXCEPT !.nodes = Append(@, NodeAt(t, i))]
         ELSE BuildLevelPromote(new_branch(t, i, i + 1, tag), i + 2, next_start, tag)

\* The for loop with right = (i + 1).min(next_start).
RECURSIVE BuildLevelOffByOne(_, _, _, _)
BuildLevelOffByOne(t, i, next_start, tag) ==
    IF i >= next_start THEN t
    ELSE BuildLevelOffByOne(new_branch(t, i, Min(i + 1, next_start), tag),
                            i + 2, next_start, tag)

\* for i in (start..tree.nodes.len()).step_by(2): the range is fixed when
\* the loop starts, at start..next_start.
RECURSIVE build_level(_, _, _, _)
build_level(t, i, next_start, tag) ==
    IF i >= next_start THEN t
    ELSE build_level(new_branch(t, i, Min(i + 1, next_start - 1), tag),
                     i + 2, next_start, tag)

\* The while loop leaving off when two nodes remain.
RECURSIVE BuildLoopStopsEarly(_, _, _)
BuildLoopStopsEarly(t, start, tag) ==
    IF Len(t.nodes) - start > 2
    THEN LET next_start == Len(t.nodes)
         IN  BuildLoopStopsEarly(build_level(t, start, next_start, tag), next_start, tag)
    ELSE t

\* while tree.nodes.len() - start > 1
RECURSIVE build_loop(_, _, _)
build_loop(t, start, tag) ==
    IF Len(t.nodes) - start > 1
    THEN LET next_start == Len(t.nodes)
         IN  build_loop(build_level(t, start, next_start, tag), next_start, tag)
    ELSE t

\* build giving the empty list a root: one node hashing no input.
BuildEmptyAsSentinel(tl, tb, data) ==
    IF data = <<>>
    THEN [root |-> Some(0), nodes |-> <<new_leaf(tagged_hash(tl, <<>>), None)>>]
    ELSE LET nodes == [k \in 1..Len(data) |->
                          new_leaf(tagged_hash(tl, as_bytes(format_record(data[k][1], data[k][2]))),
                                   Some(UserData_new(data[k][1], data[k][2])))]
             t == build_loop([root |-> None, nodes |-> nodes], 0, tb)
         IN  [t EXCEPT !.root = Some(Len(t.nodes) - 1)]

build(tl, tb, data) ==
    IF data = <<>> THEN [root |-> None, nodes |-> <<>>]
    ELSE LET nodes == [k \in 1..Len(data) |->
                          new_leaf(tagged_hash(tl, as_bytes(format_record(data[k][1], data[k][2]))),
                                   Some(UserData_new(data[k][1], data[k][2])))]
             t == build_loop([root |-> None, nodes |-> nodes], 0, tb)
         IN  [t EXCEPT !.root = Some(Len(t.nodes) - 1)]

\* MerkleTree::root
root(t) ==
    IF is_some(t.root) THEN Some(hex_encode(NodeAt(t, unwrap(t.root)).hash)) ELSE None


----------------------------------------------------------------------------
(* NodeDirection, TraversePath *)

\* NodeDirection::value
value(direction) == IF direction = "Left" THEN 0 ELSE 1

TraversePath_new == [hashes |-> <<>>, directions |-> <<>>]

add_step(path, hash, direction) ==
    [hashes |-> Append(path.hashes, hash),
     directions |-> Append(path.directions, direction)]

\* A backtrack that leaves the step in the buffer.
PopNothing(path) == path

\* path.hashes.pop(); path.directions.pop();
pop_step(path) ==
    [hashes |-> SubSeq(path.hashes, 1, Len(path.hashes) - 1),
     directions |-> SubSeq(path.directions, 1, Len(path.directions) - 1)]

\* TraversePath::to_vec
to_vec(path) ==
    [i \in 1..Min(Len(path.hashes), Len(path.directions)) |->
        <<path.hashes[i], value(path.directions[i])>>]

----------------------------------------------------------------------------
(* MerkleTree::search_with_path, run alone *)

\* A pure predicate Fn(&UserData) -> bool is the set of records it accepts.
predicate_call(predicate, ud) == ud \in predicate

\* A search that never descends into a right child.
RECURSIVE SearchLeftOnly(_, _, _, _)
SearchLeftOnly(t, node, predicate, path) ==
    LET n == NodeAt(t, node)
    IN  IF is_some(n.user_data) /\ predicate_call(predicate, unwrap(n.user_data))
        THEN [ret |-> Some([node |-> node, path |-> path]), path |-> path]
        ELSE IF is_some(n.left)
             THEN LET r == SearchLeftOnly(t, unwrap(n.left), predicate,
                                          add_step(path, hex_encode(n.hash), "Left"))
                  IN  IF is_some(r.ret) THEN r
                      ELSE [ret |-> None, path |-> pop_step(r.path)]
             ELSE [ret |-> None, path |-> path]

\* A search that tries the right child before the left.
RECURSIVE SearchRightFirst(_, _, _, _)
SearchRightFirst(t, node, predicate, path) ==
    LET n == NodeAt(t, node)
    IN  IF is_some(n.user_data) /\ predicate_call(predicate, unwrap(n.user_data))
        THEN [ret |-> Some([node |-> node, path |-> path]), path |-> path]
        ELSE
          LET afterRight ==
                IF is_some(n.right)
                THEN LET r == SearchRightFirst(t, unwrap(n.right), predicate,
                                  add_step(path, hex_encode(n.hash), "Right"))
                     IN  IF is_some(r.ret) THEN r
                         ELSE [ret |-> None, path |-> pop_step(r.path)]
                ELSE [ret |-> None, path |-> path]
          IN  IF is_some(afterRight.ret) THEN afterRight
              ELSE IF is_some(n.left)
                   THEN LET r == SearchRightFirst(t, unwrap(n.left), predicate,
                                     add_step(afterRight.path, hex_encode(n.hash), "Left"))
                        IN  IF is_some(r.ret) THEN r
                            ELSE [ret |-> None, path |-> pop_step(r.path)]
                   ELSE [ret |-> None, path |-> afterRight.path]

\* The value returned and the caller's path buffer as the call leaves it.
RECURSIVE search_node_with_path(_, _, _, _)
search_node_with_path(t, node, predicate, path) ==
    LET n == NodeAt(t, node)
    IN  IF is_some(n.user_data) /\ predicate_call(predicate, unwrap(n.user_data))
        THEN [ret  |-> Some([node |-> node,
                             path |-> [directions |-> path.directions,
                                       hashes     |-> path.hashes]]),
              path |-> path]
        ELSE
          LET afterLeft ==
                IF is_some(n.left)
                THEN LET r == search_node_with_path(t, unwrap(n.left), predicate,
                                  add_step(path, hex_encode(n.hash), "Left"))
                     IN  IF is_some(r.ret) THEN r
                         ELSE [ret |-> None, path |-> pop_step(r.path)]
                ELSE [ret |-> None, path |-> path]
          IN  IF is_some(afterLeft.ret) THEN afterLeft
              ELSE IF is_some(n.right)
                   THEN LET r == search_node_with_path(t, unwrap(n.right), predicate,
                                     add_step(afterLeft.path, hex_encode(n.hash), "Right"))
                        IN  IF is_some(r.ret) THEN r
                            ELSE [ret |-> None, path |-> pop_step(r.path)]
                   ELSE [ret |-> None, path |-> afterLeft.path]

search_with_path(t, predicate) ==
    IF is_some(t.root)
    THEN search_node_with_path(t, unwrap(t.root), predicate, TraversePath_new).ret
    ELSE None

----------------------------------------------------------------------------
(* Inputs *)

\* lib.rs tests: tag_leaf, tag_branch and a tag of the tagged_hash test.
ProofOfReserve_Leaf ==
    <<"P","r","o","o","f","O","f","R","e","s","e","r","v","e","_","L","e","a","f">>

ProofOfReserve_Branch ==
    <<"P","r","o","o","f","O","f","R","e","s","e","r","v","e","_","B","r","a","n","c","h">>

hello == <<"h","e","l","l","o">>

TagPairs == {<<ProofOfReserve_Leaf, ProofOfReserve_Branch>>, <<hello, hello>>}

\* lib.rs tests: the list (1,1111), (2,2222), ... cut after n records.
TestList(n) == [k \in 1..n |-> <<k, 1111 * k>>]

\* A list that holds an identifier several times: m records (1,1111),
\* then n - m records (20,0).
RepeatList(n, m) == [k \in 1..n |-> IF k <= m THEN <<1, 1111>> ELSE <<20, 0>>]

RecordLists ==
    {TestList(n) : n \in 0..MaxRecords}
    \cup UNION {{RepeatList(n, m) : m \in 0..n} : n \in 1..MaxRecords}

AllUserData == {UserData_new(k, 1111 * k) : k \in 1..MaxRecords} \cup {UserData_new(20, 0)}

\* |user_data| user_data.user_id == x
IdIs(x) == {u \in AllUserData : u.user_id = x}

\* id == 1, id == 3, id == 5, id == 20, |u| true
Predicates == {IdIs(1), IdIs(3), IdIs(5), IdIs(20), AllUserData}

Callers == {"c1", "c2"}

IdleCall ==
    [op |-> "idle", status |-> "idle", predicate |-> {}, user_id |-> <<>>,
     stack |-> <<>>, path |-> TraversePath_new, ret |-> None,
     searched |-> FALSE, fault |-> "none"]

NotCalled == [called |-> FALSE, predicate |-> {}, ret |-> None]

----------------------------------------------------------------------------
(* Build once, then root() and search_with_path run alone *)

Init ==
    /\ \E tags \in TagPairs : tag_leaf = tags[1] /\ tag_branch = tags[2]
    /\ user_data \in RecordLists
    /\ pc = "new"
    /\ tree = [root |-> None, nodes |-> <<>>]
    /\ root_ret = NotCalled
    /\ search_ret = NotCalled
    /\ calls = [c \in Callers |-> IdleCall]

Build ==
    /\ pc = "new"
    /\ tree' = build(tag_leaf, tag_branch, user_data)
    /\ pc' = "built"
    /\ UNCHANGED <<tag_leaf, tag_branch, user_data, root_ret, search_ret, calls>>

Root ==
    /\ pc = "built"
    /\ root_ret' = [called |-> TRUE, predicate |-> {}, ret |-> root(tree)]
    /\ UNCHANGED <<tag_leaf, tag_branch, user_data, pc, tree, search_ret, calls>>

Search(predicate) ==
    /\ pc = "built"
    /\ search_ret' = [called |-> TRUE, predicate |-> predicate,
                      ret |-> search_with_path(tree, predicate)]
    /\ UNCHANGED <<tag_leaf, tag_branch, user_data, pc, tree, root_ret, calls>>

Next ==
    \/ Build
    \/ Root
    \/ \E predicate \in Predicates : Search(predicate)

Spec == Init /\ [][Next]_vars

----------------------------------------------------------------------------
(* Calls in progress: search_node_with_path one node visit at a time *)

\* str::parse::<u32>: Ok(n) is <<n>>, Err is <<>>.  A leading "+" is
\* accepted, a leading "-" is an invalid digit for an unsigned type.  Texts
\* of at most MaxIdLen characters stay below 2^32: no overflow error.
RECURSIVE decimal_value(_)
decimal_value(digits) ==
    IF digits = <<>> THEN 0
    ELSE 10 * decimal_value(SubSeq(digits, 1, Len(digits) - 1))
         + (IndexOf(Digits, digits[Len(digits)]) - 1)

parse_u32(s) ==
    IF s = <<>> THEN None
    ELSE IF Len(s) = 1 /\ s[1] \in {"+", "-"} THEN None
    ELSE LET digits == IF s[1] = "+" THEN Tail(s) ELSE s
         IN  IF \A i \in 1..Len(digits) : IsIn(Digits, digits[i])
             THEN Some(decimal_value(digits))
             ELSE None

\* One buffer for all calls: a call starts on what another has pushed.
SharedPathBuffer(cs, c) == cs[CHOOSE o \in Callers : o # c].path

\* let mut path = TraversePath::new(): a buffer of the call's own.
new_path(cs, c) == TraversePath_new

\* The predicate as the call runs it on a leaf's record: "true", "false",
\* or "panic" when the closure of proof_by_user_id unwraps a parse error.
closure_call(call, ud) ==
    IF call.op = "proof_by_user_id"
    THEN LET parsed == parse_u32(call.user_id)
         IN  IF ~is_some(parsed) THEN "panic"
             ELSE IF ud.id = unwrap(parsed) THEN "true" ELSE "false"
    ELSE IF predicate_call(call.predicate, ud) THEN "true" ELSE "false"

\* search_with_path has returned ret to its caller.
finish(t, call, ret) ==
    IF call.op = "proof_by_user_id"
    THEN IF is_some(ret)
         THEN [call EXCEPT
                 !.status = "returned", !.stack = <<>>, !.path = TraversePath_new,
                 !.ret = Some([user_balance |->
                                   unwrap(NodeAt(t, unwrap(ret).node).user_data).balance,
                               proof |-> to_vec(unwrap(ret).path)])]
         ELSE [call EXCEPT
                 !.status = "panicked", !.fault = "unwrap_none",
                 !.stack = <<>>, !.path = TraversePath_new]
    ELSE [call EXCEPT
            !.status = "returned", !.stack = <<>>, !.path = TraversePath_new,
            !.ret = ret]

\* One visit of search_node_with_path: entering a node, or resuming in it
\* after the recursive call into its left or right child returned None.
search_step(t, call) ==
    LET top  == call.stack[Len(call.stack)]
        rest == SubSeq(call.stack, 1, Len(call.stack) - 1)
        n    == NodeAt(t, top.node)
        ReturnNone(path) ==
            IF rest = <<>> THEN finish(t, call, None)
            ELSE [call EXCEPT !.stack = rest, !.path = path]
        TryRight(path) ==
            IF is_some(n.right)
            THEN [call EXCEPT
                    !.path = add_step(path, hex_encode(n.hash), "Right"),
                    !.stack = Append(Append(rest, [node |-> top.node, at |-> "right"]),
                                     [node |-> unwrap(n.right), at |-> "enter"])]
            ELSE ReturnNone(path)
        TryLeft(path) ==
            IF is_some(n.left)
            THEN [call EXCEPT
                    !.path = add_step(path, hex_encode(n.hash), "Left"),
                    !.stack = Append(Append(rest, [node |-> top.node, at |-> "left"]),
                                     [node |-> unwrap(n.left), at |-> "enter"])]
            ELSE TryRight(path)
    IN  CASE top.at = "enter" ->
               IF is_some(n.user_data)
               THEN LET verdict == closure_call(call, unwrap(n.user_data))
                    IN  CASE verdict = "panic" ->
                               [call EXCEPT !.status = "panicked",
                                            !.fault = "parse_in_predicate",
                                            !.stack = <<>>, !.path = TraversePath_new]
                          [] verdict = "true" ->
                               finish(t, call,
                                      Some([node |-> top.node,
                                            path |-> [directions |-> call.path.directions,
                                                      hashes     |-> call.path.hashes]]))
                          [] OTHER -> TryLeft(call.path)
               ELSE TryLeft(call.path)
          [] top.at = "left"  -> TryRight(pop_step(call.path))
          [] top.at = "right" -> ReturnNone(pop_step(call.path))

\* search_with_path is entered: the root is read and the buffer created.
search_begin(t, cs, c, call) ==
    IF is_some(t.root)
    THEN [call EXCEPT !.status = "running", !.searched = TRUE,
                      !.path = new_path(cs, c),
                      !.stack = <<[node |-> unwrap(t.root), at |-> "enter"]>>]
    ELSE finish(t, [call EXCEPT !.searched = TRUE], None)

CallRoot(c) ==
    /\ calls[c].status = "idle"
    /\ calls' = [calls EXCEPT ![c] =
                    [IdleCall EXCEPT !.op = "root", !.status = "returned",
                                     !.ret = root(tree)]]
    /\ UNCHANGED <<tag_leaf, tag_branch, user_data, pc, tree, root_ret, search_ret>>

CallSearch(c, predicate) ==
    /\ calls[c].status = "idle"
    /\ calls' = [calls EXCEPT ![c] =
                    search_begin(tree, calls, c,
                        [IdleCall EXCEPT !.op = "search", !.predicate = predicate])]
    /\ UNCHANGED <<tag_leaf, tag_branch, user_data, pc, tree, root_ret, search_ret>>

SearchStep(c) ==
    /\ calls[c].status = "running"
    /\ calls' = [calls EXCEPT ![c] = search_step(tree, calls[c])]
    /\ UNCHANGED <<tag_leaf, tag_branch, user_data, pc, tree, root_ret, search_ret>>

\* The caller takes the answer (or the fault) and may call again.
Return(c) ==
    /\ calls[c].status \in {"returned", "panicked"}
    /\ calls' = [calls EXCEPT ![c] = IdleCall]
    /\ UNCHANGED <<tag_leaf, tag_branch, user_data, pc, tree, root_ret, search_ret>>

ConcLists == {TestList(n) : n \in 0..MaxConcRecords}

ConcPredicates == {IdIs(1), IdIs(3), IdIs(5), IdIs(9), IdIs(2) \cup IdIs(4)}

InitConc ==
    /\ tag_leaf = ProofOfReserve_Leaf
    /\ tag_branch = ProofOfReserve_Branch
    /\ user_data \in ConcLists
    /\ pc = "built"
    /\ tree = build(tag_leaf, tag_branch, user_data)
    /\ root_ret = NotCalled
    /\ search_ret = NotCalled
    /\ calls = [c \in Callers |-> IdleCall]

NextConc ==
    \E c \in Callers :
        \/ CallRoot(c)
        \/ \E predicate \in ConcPredicates : CallSearch(c, predicate)
        \/ SearchStep(c)
        \/ Return(c)

SpecConc == InitConc /\ [][NextConc]_vars

----------------------------------------------------------------------------
(* proof-of-reserve-app: GET /proof/<user_id> *)

\* main.rs rocket(): the (id, balance) pairs the server starts from.
AppUserData ==
    <<<<1, 1111>>, <<2, 2222>>, <<3, 3333>>, <<4, 4444>>,
      <<5, 5555>>, <<6, 6666>>, <<7, 7777>>, <<8, 8888>>>>

\* impl MerkleTreeData for UserData (main.rs): "id,balance", no parentheses.
serialize(ud) == as_bytes(to_string(ud.id) \o <<",">> \o to_string(ud.balance))

\* merkle_tree_lib::MerkleTree::<UserData>::build as main.rs calls it: the
\* build of lib.rs over records that bring their own bytes.
MerkleTree_build(tl, tb, data) ==
    IF data = <<>> THEN [root |-> None, nodes |-> <<>>]
    ELSE LET nodes == [k \in 1..Len(data) |->
                          new_leaf(tagged_hash(tl, serialize(data[k])), Some(data[k]))]
             t == build_loop([root |-> None, nodes |-> nodes], 0, tb)
         IN  [t EXCEPT !.root = Some(Len(t.nodes) - 1)]

IdAlphabet == {"0", "1", "9", "x", "+"}

\* A path segment of the route /proof/<user_id>: not empty.
UserIdStrings == UNION {[1..n -> IdAlphabet] : n \in 1..MaxIdLen}

\* proof_by_user_id up to its call of search_with_path: the request
\* parameter goes into the closure as it came.
ProofByUserId(c, user_id) ==
    /\ calls[c].status = "idle"
    /\ calls' = [calls EXCEPT ![c] =
                    search_begin(tree, calls, c,
                        [IdleCall EXCEPT !.op = "proof_by_user_id",
                                         !.user_id = user_id])]
    /\ UNCHANGED <<tag_leaf, tag_branch, user_data, pc, tree, root_ret, search_ret>>

InitApp ==
    /\ tag_leaf = ProofOfReserve_Leaf
    /\ tag_branch = ProofOfReserve_Branch
    /\ user_data = [k \in 1..Len(AppUserData) |->
                        [id |-> AppUserData[k][1], balance |-> AppUserData[k][2]]]
    /\ pc = "built"
    /\ tree = MerkleTree_build(tag_leaf, tag_branch, user_data)
    /\ root_ret = NotCalled
    /\ search_ret = NotCalled
    /\ calls = [c \in Callers |-> IdleCall]

NextApp ==
    \/ \E user_id \in UserIdStrings : ProofByUserId("c1", user_id)
    \/ SearchStep("c1")
    \/ Return("c1")

SpecApp == InitApp /\ [][NextApp]_vars

----------------------------------------------------------------------------
(* Vocabulary of the properties *)

N == Len(user_data)

Built == pc = "built"

\* The record at input position k (1-based) as a leaf holds it.
RecordAt(k) == UserData_new(user_data[k][1], user_data[k][2])

CeilDiv2(n) == (n + 1) \div 2

\* ceil(log2(n)) for n >= 1: the least k with 2^k >= n.
CeilLog2(n) == CHOOSE k \in 0..n : 2^k >= n /\ (k = 0 \/ 2^(k - 1) < n)

\* Size of level j of a tree over N leaves (level 0 is the leaves).
RECURSIVE LevelSize(_)
LevelSize(j) == IF j = 0 THEN N ELSE CeilDiv2(LevelSize(j - 1))

\* Arena index of the first node of level j.
RECURSIVE LevelStart(_)
LevelStart(j) == IF j = 0 THEN 0 ELSE LevelStart(j - 1) + LevelSize(j - 1)

\* The level that holds one node: the root's.
TopLevel == CHOOSE j \in 0..N : LevelSize(j) = 1 /\ \A i \in 0..(j - 1) : LevelSize(i) > 1

IsLeaf(n) == is_some(n.user_data) /\ n.left = None /\ n.right = None

IsBranch(n) == n.user_data = None /\ is_some(n.left) /\ is_some(n.right)

\* The node reached from the root by the first k directions, -1 if a
\* direction leads nowhere.
RECURSIVE Walk(_, _, _)
Walk(t, dirs, k) ==
    IF k = 0 THEN unwrap(t.root)
    ELSE LET p == Walk(t, dirs, k - 1)
         IN  IF p < 0 THEN -1
             ELSE LET c == IF dirs[k] = "Left" THEN NodeAt(t, p).left
                                               ELSE NodeAt(t, p).right
                  IN  IF is_some(c) THEN unwrap(c) ELSE -1

\* The depths at which the nodes without children lie below node.
RECURSIVE LeafDepths(_, _, _)
LeafDepths(t, node, d) ==
    LET n == NodeAt(t, node)
    IN  IF n.left = None /\ n.right = None THEN {d}
        ELSE (IF is_some(n.left) THEN LeafDepths(t, unwrap(n.left), d + 1) ELSE {})
             \cup (IF is_some(n.right) THEN LeafDepths(t, unwrap(n.right), d + 1) ELSE {})

\* Inverse of hexadecimal encoding, lowercase digits only.
RECURSIVE HexDecode(_)
HexDecode(h) ==
    IF Len(h) < 2 THEN <<>>
    ELSE <<16 * (IndexOf(HexDigits, h[1]) - 1) + (IndexOf(HexDigits, h[2]) - 1)>>
         \o HexDecode(SubSeq(h, 3, Len(h)))

IsLowerHex(h) == Len(h) % 2 = 0 /\ \A i \in 1..Len(h) : IsIn(HexDigits, h[i])

\* Left before Right, position by position, for sequences of one length.
LexLeq(a, b) ==
    \/ a = b
    \/ \E i \in 1..Len(a) :
          /\ \A j \in 1..(i - 1) : a[j] = b[j]
          /\ a[i] = "Left" /\ b[i] = "Right"

\* Input positions (0-based, the leaves' arena indices) whose record
\* satisfies the predicate.
Matches(predicate) == {k \in 0..(N - 1) : RecordAt(k + 1) \in predicate}

Found == Built /\ search_ret.called /\ is_some(search_ret.ret)

\* lib.rs tests: the root of the tree over (1,1111)..(5,5555), and the two
\* hashes below it on the way to the record with id 3.
TestRoot ==
    <<"8", "5", "7", "f", "9", "b", "d", "f", "b", "b", "e", "e", "9", "2",
      "0", "7", "6", "7", "5", "c", "b", "d", "e", "4", "6", "0", "c", "9",
      "9", "6", "8", "2", "0", "1", "5", "7", "5", "8", "1", "1", "1", "b",
      "8", "f", "9", "a", "a", "d", "7", "1", "9", "3", "8", "3", "2", "6",
      "1", "9", "f", "b", "1", "7", "8", "2">>

TestHash1 ==
    <<"0", "9", "e", "1", "f", "2", "0", "8", "d", "3", "b", "9", "6", "f",
      "4", "d", "5", "9", "4", "8", "2", "2", "5", "f", "3", "a", "1", "e",
      "a", "8", "3", "f", "b", "c", "0", "0", "1", "7", "a", "8", "0", "d",
      "1", "f", "c", "d", "2", "6", "0", "3", "c", "a", "5", "3", "7", "e",
      "9", "5", "8", "f", "c", "c", "5", "7">>

TestHash2 ==
    <<"7", "6", "4", "3", "7", "4", "6", "4", "d", "6", "8", "b", "7", "7",
      "9", "5", "7", "1", "e", "1", "d", "9", "4", "2", "7", "0", "d", "f",
      "8", "6", "7", "9", "2", "f", "a", "a", "d", "0", "b", "d", "c", "f",
      "e", "2", "c", "0", "8", "6", "8", "4", "5", "9", "d", "4", "c", "9",
      "b", "d", "0", "f", "f", "5", "d", "a">>

\* Every leaf of t has the tagged hash of its record's text.
LeavesHashed(t) ==
    \A k \in 1..N :
        /\ k <= Len(t.nodes)
        /\ t.nodes[k].hash =
              tagged_hash(tag_leaf,
                  as_bytes(<<"(">> \o to_string(user_data[k][1]) \o <<",">>
                           \o to_string(user_data[k][2]) \o <<")">>))

\* Every other node of t has the tagged hash of its children's hashes, the
\* left child's first.
BranchesHashed(t) ==
    \A k \in (N + 1)..Len(t.nodes) :
        /\ IsBranch(t.nodes[k])
        /\ t.nodes[k].hash =
              tagged_hash(tag_branch,
                  NodeAt(t, unwrap(t.nodes[k].left)).hash
                  \o NodeAt(t, unwrap(t.nodes[k].right)).hash)

\* One leaf per record in input order, branches after them, and root()
\* the hexadecimal text of the root node's hash.
LeavesInOrderAndRootEncoded ==
    (Built /\ N >= 1) =>
        /\ Len(tree.nodes) >= N
        /\ \A k \in 1..N : tree.nodes[k].user_data = Some(RecordAt(k))
        /\ \A k \in (N + 1)..Len(tree.nodes) : IsBranch(tree.nodes[k])
        /\ \A k \in 1..Len(tree.nodes) : Len(tree.nodes[k].hash) = 32
        /\ is_some(tree.root)
        /\ root_ret.called =>
              /\ is_some(root_ret.ret)
              /\ Len(unwrap(root_ret.ret)) = 64
              /\ IsLowerHex(unwrap(root_ret.ret))
              /\ HexDecode(unwrap(root_ret.ret)) = NodeAt(tree, unwrap(tree.root)).hash
              /\ N = 1 => HexDecode(unwrap(root_ret.ret)) = tree.nodes[1].hash

----------------------------------------------------------------------------
(* Properties *)

\* C1: for a non-empty record list build creates one leaf per record, in
\* input order, hashed as tagged_hash(leaf_tag, "(id,balance)"); every
\* other node is a branch hashed as tagged_hash(branch_tag, left's hash
\* followed by right's hash); root() is the lowercase hexadecimal text of
\* the root node's hash, for one record the text of that leaf's hash.
C1_HashesAndRoot ==
    /\ []LeavesInOrderAndRootEncoded
    /\ [][(pc = "new" /\ pc' = "built" /\ N >= 1) =>
              (LeavesHashed(tree') /\ BranchesHashed(tree'))]_vars
    /\ [][Built => tree' = tree]_vars

\* The 5-record list of the tests under the tests' tags, with the root
\* the test expects.
C1_Witness ==
    /\ Built /\ N = 5 /\ root_ret.called
    /\ tag_leaf = ProofOfReserve_Leaf /\ tag_branch = ProofOfReserve_Branch
    /\ user_data = TestList(5)
    /\ root_ret.ret = Some(TestRoot)
    /\ \E k \in (N + 1)..Len(tree.nodes) :
          NodeAt(tree, unwrap(tree.nodes[k].left)).hash
              # NodeAt(tree, unwrap(tree.nodes[k].right)).hash

\* C2: every level of n >= 2 nodes is reduced to ceil(n/2) new branches,
\* the k-th with children 2k and 2k+1 of the level below; for odd n the
\* last branch has the level's last node as both children, and no node of
\* a level is carried to the next unchanged.
C2_Levels ==
    (Built /\ N >= 1) =>
        /\ Len(tree.nodes) = LevelStart(TopLevel) + 1
        /\ tree.root = Some(LevelStart(TopLevel))
        /\ \A j \in 0..(TopLevel - 1) :
              \A k \in 0..(CeilDiv2(LevelSize(j)) - 1) :
                 LET b == NodeAt(tree, LevelStart(j + 1) + k)
                 IN  /\ b.user_data = None
                     /\ b.left = Some(LevelStart(j) + 2 * k)
                     /\ b.right = Some(LevelStart(j)
                                       + (IF 2 * k + 1 < LevelSize(j) THEN 2 * k + 1
                                                                      ELSE 2 * k))

C2_Witness ==
    /\ Built /\ N = 5 /\ Len(tree.nodes) = 11
    /\ NodeAt(tree, 7).left = Some(4) /\ NodeAt(tree, 7).right = Some(4)
    /\ NodeAt(tree, 9).left = Some(7) /\ NodeAt(tree, 9).right = Some(7)

\* C3: in a tree over N >= 1 records every leaf lies ceil(log2(N)) below
\* the root, so every path a search returns has ceil(log2(N)) steps; it is
\* empty exactly when N = 1.
C3_PathLength ==
    (Built /\ N >= 1) =>
        /\ LeafDepths(tree, unwrap(tree.root), 0) = {CeilLog2(N)}
        /\ Found =>
              LET path == unwrap(search_ret.ret).path
              IN  /\ Len(path.hashes) = CeilLog2(N)
                  /\ Len(path.directions) = CeilLog2(N)
                  /\ (path.hashes = <<>>) <=> (N = 1)

C3_Witness ==
    /\ Found /\ N = 5
    /\ Len(unwrap(search_ret.ret).path.hashes) = 3
    /\ unwrap(search_ret.ret).node = 4

\* C4: a returned path lists, root first, the ancestors of the returned
\* leaf: entry i is the hash of the node reached from the root by the
\* directions before it, with the direction followed there, and all the
\* directions lead to the returned leaf; nothing of a subtree that was
\* searched in vain is left in it.
C4_PathIsAncestors ==
    Found =>
        LET r == unwrap(search_ret.ret)
            len == Len(r.path.directions)
        IN  /\ Len(r.path.hashes) = len
            /\ \A i \in 1..len :
                  /\ r.path.directions[i] \in {"Left", "Right"}
                  /\ Walk(tree, r.path.directions, i - 1) >= 0
                  /\ r.path.hashes[i] =
                        hex_encode(NodeAt(tree, Walk(tree, r.path.directions, i - 1)).hash)
                  /\ to_vec(r.path)[i] =
                        <<r.path.hashes[i], IF r.path.directions[i] = "Left" THEN 0 ELSE 1>>
            /\ Walk(tree, r.path.directions, len) = r.node

\* The search of the tests: id 3 among (1,1111)..(5,5555).
C4_Witness ==
    /\ Found /\ N = 5
    /\ tag_leaf = ProofOfReserve_Leaf /\ tag_branch = ProofOfReserve_Branch
    /\ user_data = TestList(5)
    /\ unwrap(search_ret.ret).node = 2
    /\ unwrap(search_ret.ret).path.directions = <<"Left", "Right", "Left">>
    /\ to_vec(unwrap(search_ret.ret).path)
          = <<<<TestRoot, 0>>, <<TestHash1, 1>>, <<TestHash2, 0>>>>

\* C5: search_with_path returns a result exactly when some record of the
\* input satisfies the predicate; a result is a leaf whose record satisfies
\* it, and no result is the plain answer None.
C5_FoundIffSatisfied ==
    (Built /\ search_ret.called) =>
        /\ is_some(search_ret.ret) <=> (Matches(search_ret.predicate) # {})
        /\ is_some(search_ret.ret) =>
              LET n == NodeAt(tree, unwrap(search_ret.ret).node)
              IN  /\ IsLeaf(n)
                  /\ unwrap(n.user_data) \in search_ret.predicate
        /\ ~is_some(search_ret.ret) => search_ret.ret = None

C5_Witness ==
    /\ Built /\ search_ret.called /\ N = 5
    /\ search_ret.predicate # {}
    /\ search_ret.ret = None

\* C6: built from no records the tree has no root and no nodes, root()
\* and every search return None; built from at least one record, root()
\* returns a value.
C6_EmptyTree ==
    Built =>
        /\ N = 0 =>
              /\ tree.root = None
              /\ tree.nodes = <<>>
              /\ root_ret.called => root_ret.ret = None
              /\ search_ret.called => search_ret.ret = None
        /\ (N >= 1 /\ root_ret.called) => is_some(root_ret.ret)

C6_Witness ==
    /\ Built /\ N = 0
    /\ root_ret.called /\ root_ret.ret = None
    /\ search_ret.called /\ search_ret.predicate = AllUserData /\ search_ret.ret = None

\* C8: a leaf owns one record and has no children, a branch owns no
\* record and has a left and a right child, both at smaller arena indices;
\* every node but the root is the child of exactly one node, the root of
\* none.
C8_Shape ==
    Built =>
        \A i \in 0..(Len(tree.nodes) - 1) :
            LET n == NodeAt(tree, i)
                parents == {p \in 0..(Len(tree.nodes) - 1) :
                               \/ NodeAt(tree, p).left = Some(i)
                               \/ NodeAt(tree, p).right = Some(i)}
            IN  /\ IsLeaf(n) \/ IsBranch(n)
                /\ IsLeaf(n) <=> i < N
                /\ IsBranch(n) => unwrap(n.left) < i /\ unwrap(n.right) < i
                /\ \A p \in parents : IsBranch(NodeAt(tree, p))
                /\ IF tree.root = Some(i) THEN parents = {}
                                          ELSE Cardinality(parents) = 1

C8_Witness ==
    /\ Built /\ N = 6 /\ Len(tree.nodes) = 12
    /\ NodeAt(tree, 10).left = Some(8) /\ NodeAt(tree, 10).right = Some(8)

\* C10: when several leaves satisfy the predicate the search returns the
\* one first in input order, by the least direction sequence (Left before
\* Right) that reaches a satisfying leaf; at a branch whose two children
\* are one node the path records Left.
C10_LeftmostMatch ==
    Found =>
        LET r == unwrap(search_ret.ret)
            dirs == r.path.directions
            M == Matches(search_ret.predicate)
        IN  /\ r.node \in M
            /\ \A m \in M : r.node <= m
            /\ \A d \in [1..Len(dirs) -> {"Left", "Right"}] :
                  (Walk(tree, d, Len(dirs)) \in M) => LexLeq(dirs, d)
            /\ \A i \in 1..Len(dirs) :
                  LET a == NodeAt(tree, Walk(tree, dirs, i - 1))
                  IN  a.left = a.right => dirs[i] = "Left"

C10_Witness ==
    /\ Found /\ N = 6
    /\ Matches(search_ret.predicate) = {4, 5}
    /\ unwrap(search_ret.ret).node = 4
    /\ unwrap(search_ret.ret).path.directions = <<"Right", "Left", "Left">>

\* Each call has the answer it has when it runs alone on the tree, and a
\* search in progress has in its buffer its own steps only.
AnswersAsAlone ==
    \A c \in Callers :
        LET call == calls[c]
        IN  /\ call.status # "panicked"
            /\ (call.status = "returned" /\ call.op = "root") =>
                  call.ret = root(tree)
            /\ (call.status = "returned" /\ call.op = "search") =>
                  call.ret = search_with_path(tree, call.predicate)
            /\ call.status = "running" =>
                  /\ Len(call.path.hashes) = Len(call.path.directions)
                  /\ Len(call.path.hashes) =
                        IF call.stack[Len(call.stack)].at = "enter"
                        THEN Len(call.stack) - 1 ELSE Len(call.stack)

\* C7: calls of root() and search_with_path that overlap on one tree leave
\* the tree as build made it, and each returns what it returns when it
\* runs alone; a search in progress has in its buffer its own steps only.
C7_ReadersDoNotInterfere ==
    /\ [][tree' = tree]_vars
    /\ []AnswersAsAlone

C7_Witness ==
    /\ N = 5
    /\ calls["c1"].op = "search" /\ calls["c1"].status = "returned"
    /\ is_some(calls["c1"].ret)
    /\ unwrap(calls["c1"].ret).path.directions = <<"Right", "Left", "Left">>
    /\ calls["c2"].op = "search" /\ calls["c2"].status = "running"
    /\ calls["c2"].predicate # calls["c1"].predicate
    /\ calls["c2"].path.directions = <<"Left", "Right">>

\* C9: in GET /proof/<user_id> an identifier that does not parse as a
\* number is rejected before search_with_path is entered, and never
\* faults inside the search.
C9_MalformedRejectedBeforeSearch ==
    \A c \in Callers :
        (calls[c].op = "proof_by_user_id" /\ ~is_some(parse_u32(calls[c].user_id))) =>
            /\ ~calls[c].searched
            /\ calls[c].fault # "parse_in_predicate"

=============================================================================
